---- MODULE Spec2Model ----
(***************************************************************************)
(* pfsync action/message decoder (pfsync/actions.py, pfsync/messages.py).   *)
(*                                                                         *)
(* Byte buffers are sequences of integers 0..255.  Text (struct format     *)
(* strings, dotted-quad addresses) is a sequence of one-character strings, *)
(* so that string building ('%d' substitution, concatenation) and the      *)
(* parsing done by struct are computed, not assumed.                       *)
(***************************************************************************)
EXTENDS Integers, Sequences, FiniteSets, TLC

(***************************************************************************)
(* Text helpers: '%d' % n, and the characters struct reads in a format.    *)
(***************************************************************************)
Digits == <<"0", "1", "2", "3", "4", "5", "6", "7", "8", "9">>

IsDigit(ch) == \E i \in 1..10 : Digits[i] = ch

DigitVal(ch) == (CHOOSE i \in 1..10 : Digits[i] = ch) - 1

RECURSIVE FormatInt(_)
FormatInt(n) ==
    IF n < 10 THEN <<Digits[n + 1]>>
    ELSE FormatInt(n \div 10) \o <<Digits[(n % 10) + 1]>>

(***************************************************************************)
(* struct: format parsing, calcsize and unpack.  A format is an optional   *)
(* byte-order character followed by codes with an optional repeat count;   *)
(* whitespace between codes is ignored.  Without a byte-order character    *)
(* the native mode applies and every item is aligned to its own size.      *)
(***************************************************************************)
CodeSize(c) ==
    CASE c = "s" -> 1
      [] c = "B" -> 1
      [] c = "H" -> 2
      [] c = "I" -> 4
      [] c = "Q" -> 8

IsNative(fmt) == fmt = <<>> \/ fmt[1] # "!"

RECURSIVE ParseItems(_, _, _, _, _)
ParseItems(fmt, i, cnt, hasCnt, acc) ==
    IF i > Len(fmt) THEN acc
    ELSE LET ch == fmt[i] IN
         IF ch = " " THEN ParseItems(fmt, i + 1, cnt, hasCnt, acc)
         ELSE IF IsDigit(ch)
              THEN ParseItems(fmt, i + 1, cnt * 10 + DigitVal(ch), TRUE, acc)
              ELSE ParseItems(fmt, i + 1, 0, FALSE,
                              Append(acc, [n |-> IF hasCnt THEN cnt ELSE 1,
                                           c |-> ch]))

ParseFormat(fmt) ==
    ParseItems(fmt, IF IsNative(fmt) THEN 1 ELSE 2, 0, FALSE, <<>>)

AlignUp(off, a) == ((off + a - 1) \div a) * a

\* the offset after item it, the items before it ending at offset prev
ItemEndAfter(it, native, prev) ==
    (IF native THEN AlignUp(prev, CodeSize(it.c)) ELSE prev)
      + it.n * CodeSize(it.c)

\* the offset after item k of items
RECURSIVE ItemEnd(_, _, _)
ItemEnd(items, native, k) ==
    IF k = 0 THEN 0
    ELSE ItemEndAfter(items[k], native, ItemEnd(items, native, k - 1))

SizeOfItems(items, native) == ItemEnd(items, native, Len(items))

calcsize(fmt) == SizeOfItems(ParseFormat(fmt), IsNative(fmt))

\* big-endian unsigned integer held in the bytes b
RECURSIVE BigEndian(_)
BigEndian(b) ==
    IF b = <<>> THEN 0
    ELSE BigEndian(SubSeq(b, 1, Len(b) - 1)) * 256 + b[Len(b)]

\* the values one item yields from data, the item starting after offset off
ItemValues(it, data, off) ==
    IF it.c = "s" THEN <<SubSeq(data, off + 1, off + it.n)>>
    ELSE [j \in 1..it.n |->
            BigEndian(SubSeq(data, off + (j - 1) * CodeSize(it.c) + 1,
                                   off + j * CodeSize(it.c)))]

RECURSIVE UnpackItems(_, _, _, _)
UnpackItems(items, data, k, off) ==
    IF k > Len(items) THEN <<>>
    ELSE ItemValues(items[k], data, off)
           \o UnpackItems(items, data, k + 1,
                          off + items[k].n * CodeSize(items[k].c))

\* struct.unpack for the network-order ('!') formats the decoder uses
unpack(fmt, data) == UnpackItems(ParseFormat(fmt), data, 1, 0)

(***************************************************************************)
(* Layout descriptors of the record classes (messages.py).                 *)
(***************************************************************************)
PFStateKey_unpack_format == <<"!", "1", "6", "s", "1", "6", "s", " ", "2", "H">>

MessageDeleteCompressed_unpack_format == <<"!", "Q", "I">>

MessageClear_unpack_format == <<"!", "1", "6", "s", " ", "I">>

MessageInsertAck_unpack_format == <<"!", "Q", " ", "I">>

MessageUpdateReq_unpack_format == <<"!", "Q", " ", "I">>

\* calcsize('%dsIIIHHBB6B' % calcsize('HBBI')) as evaluated in
\* MessageState.get_unpack_format
MessageState_state_peer_size ==
    calcsize(FormatInt(calcsize(<<"H", "B", "B", "I">>))
               \o <<"s", "I", "I", "I", "H", "H", "B", "B", "6", "B">>)

\* the same expression as evaluated in MessageUpdateCompressed.get_unpack_format
MessageUpdateCompressed_state_peer_size ==
    calcsize(FormatInt(calcsize(<<"H", "B", "B", "I">>))
               \o <<"s", "I", "I", "I", "H", "H", "B", "B", "6", "B">>)

\* UnpackableMixin.get_unpack_format: the class attribute unpack_format
Mixin_get_unpack_format(cls) ==
    CASE cls = "PFStateKey" -> PFStateKey_unpack_format
      [] cls = "MessageDeleteCompressed" -> MessageDeleteCompressed_unpack_format
      [] cls = "MessageClear" -> MessageClear_unpack_format
      [] cls = "MessageInsertAck" -> MessageInsertAck_unpack_format
      [] cls = "MessageUpdateReq" -> MessageUpdateReq_unpack_format

\* UnpackableMixin.get_cstruct_size of PFStateKey, as used for the
\* '%(state_key_size)ds' substitution
PFStateKey_get_cstruct_size == calcsize(Mixin_get_unpack_format("PFStateKey"))

\* the state layout with rt_addr as one 4-byte word
MessageState_get_unpack_format_ShortRtAddr ==
    <<"!", "Q", " ", "1", "6", "s">>
      \o FormatInt(PFStateKey_get_cstruct_size) \o <<"s">>
      \o FormatInt(PFStateKey_get_cstruct_size) \o <<"s">>
      \o FormatInt(MessageState_state_peer_size) \o <<"s">>
      \o FormatInt(MessageState_state_peer_size) \o <<"s">>
      \o <<"I", " ", "I", "I", "I", "I", "I", " ", "4", "I", " ", "4", "I", " ", "I", " ", "B", " ", "B", "B", " ", "2", "B", " ", "B", "B", "B", "B", "B">>

MessageState_get_unpack_format ==
    <<"!", "Q", " ", "1", "6", "s">>
      \o FormatInt(PFStateKey_get_cstruct_size) \o <<"s">>
      \o FormatInt(PFStateKey_get_cstruct_size) \o <<"s">>
      \o FormatInt(MessageState_state_peer_size) \o <<"s">>
      \o FormatInt(MessageState_state_peer_size) \o <<"s">>
      \o <<"4", "I", " ", "I", "I", "I", "I", "I", " ", "4", "I", " ", "4", "I", " ", "I", " ", "B", " ", "B", "B", " ", "2", "B", " ", "B", "B", "B", "B", "B">>

\* the compressed update layout without its pad bytes
MessageUpdateCompressed_get_unpack_format_NoPad ==
    <<"!", "Q">>
      \o FormatInt(MessageUpdateCompressed_state_peer_size) \o <<"s">>
      \o FormatInt(MessageUpdateCompressed_state_peer_size) \o <<"s">>
      \o <<"I", "I", "B">>

MessageUpdateCompressed_get_unpack_format ==
    <<"!", "Q">>
      \o FormatInt(MessageUpdateCompressed_state_peer_size) \o <<"s">>
      \o FormatInt(MessageUpdateCompressed_state_peer_size) \o <<"s">>
      \o <<"I", "I", "B", " ", "3", "B">>

\* cls.get_unpack_format(): the two overriding classes, else the mixin's
get_unpack_format(cls) ==
    CASE cls = "MessageState" -> MessageState_get_unpack_format
      [] cls = "MessageUpdateCompressed" -> MessageUpdateCompressed_get_unpack_format
      [] OTHER -> Mixin_get_unpack_format(cls)

get_cstruct_size(cls) == calcsize(get_unpack_format(cls))

(***************************************************************************)
(* Record construction (the __init__ of each class) and the decode entry   *)
(* point UnpackableMixin.from_data.  Python tuples are indexed from 0, the *)
(* sequences here from 1: key[0] is key[1] below, addr[1] is addr[2].      *)
(* A constructor or decode that raises yields [ok |-> FALSE, err |-> ...]. *)
(***************************************************************************)
Raise(e) == [ok |-> FALSE, err |-> e]

Return(o) == [ok |-> TRUE, obj |-> o]

\* socket.inet_ntoa: four bytes as a dotted quad
inet_ntoa(b) ==
    FormatInt(b[1]) \o <<".">> \o FormatInt(b[2]) \o <<".">>
      \o FormatInt(b[3]) \o <<".">> \o FormatInt(b[4])

Min(a, b) == IF a < b THEN a ELSE b

\* format_addr reading the last four bytes of the field
format_addr_LastBytes(addr) == inet_ntoa(SubSeq(addr, Len(addr) - 3, Len(addr)))

format_addr(addr) == inet_ntoa(SubSeq(addr, 1, Min(4, Len(addr))))

PFStateKey_init(args) ==
    IF Len(args) # 4 THEN Raise("TypeError")
    ELSE Return([cls |-> "PFStateKey",
                 addr |-> <<format_addr(args[1]), format_addr(args[2])>>,
                 port |-> <<args[3], args[4]>>])

\* ifname.split(b'\0')[0]
RECURSIVE UntilNul(_)
UntilNul(b) ==
    IF b = <<>> \/ b[1] = 0 THEN <<>>
    ELSE <<b[1]>> \o UntilNul(Tail(b))

RECURSIVE from_data(_, _)

\* MessageState.__init__ taking __spare for one byte: log and timeout are
\* read one field early
MessageState_init_OneSpare(args) ==
    IF Len(args) # 34 THEN Raise("ValueError")
    ELSE LET WithKeys(key1, key2) ==
                 IF ~key1.ok THEN key1
                 ELSE IF ~key2.ok THEN key2
                 ELSE Return([cls |-> "MessageState",
                              id |-> args[1],
                              creator |-> args[24],
                              interface |-> UntilNul(args[2]),
                              key |-> <<key1.msg, key2.msg>>,
                              packets |-> <<<<args[16], args[17]>>,
                                            <<args[18], args[19]>>>>,
                              bytes |-> <<<<args[20], args[21]>>,
                                          <<args[22], args[23]>>>>,
                              protocol |-> args[26],
                              direction |-> args[27],
                              timeout |-> args[31],
                              expire |-> args[15],
                              creation |-> args[14],
                              rule |-> args[11],
                              log |-> args[29]])
         IN  WithKeys(from_data("PFStateKey", args[3]),
                      from_data("PFStateKey", args[4]))

MessageState_init(args) ==
    IF Len(args) # 34 THEN Raise("ValueError")
    ELSE LET WithKeys(key1, key2) ==
                 IF ~key1.ok THEN key1
                 ELSE IF ~key2.ok THEN key2
                 ELSE Return([cls |-> "MessageState",
                              id |-> args[1],
                              creator |-> args[24],
                              interface |-> UntilNul(args[2]),
                              key |-> <<key1.msg, key2.msg>>,
                              packets |-> <<<<args[16], args[17]>>,
                                            <<args[18], args[19]>>>>,
                              bytes |-> <<<<args[20], args[21]>>,
                                          <<args[22], args[23]>>>>,
                              protocol |-> args[26],
                              direction |-> args[27],
                              timeout |-> args[32],
                              expire |-> args[15],
                              creation |-> args[14],
                              rule |-> args[11],
                              log |-> args[30]])
         IN  WithKeys(from_data("PFStateKey", args[3]),
                      from_data("PFStateKey", args[4]))

MessageDeleteCompressed_init(args) ==
    IF Len(args) # 2 THEN Raise("TypeError")
    ELSE Return([cls |-> "MessageDeleteCompressed",
                 id |-> args[1], creator |-> args[2]])

MessageClear_init(args) ==
    IF Len(args) # 2 THEN Raise("TypeError")
    ELSE Return([cls |-> "MessageClear",
                 interface |-> args[1], creator |-> args[2]])

MessageInsertAck_init(args) ==
    IF Len(args) # 2 THEN Raise("TypeError")
    ELSE Return([cls |-> "MessageInsertAck",
                 id |-> args[1], creator |-> args[2]])

MessageUpdateReq_init(args) ==
    IF Len(args) # 2 THEN Raise("TypeError")
    ELSE Return([cls |-> "MessageUpdateReq",
                 id |-> args[1], creator |-> args[2]])

MessageUpdateCompressed_init(args) ==
    IF Len(args) # 9 THEN Raise("TypeError")
    ELSE Return([cls |-> "MessageUpdateCompressed",
                 id |-> args[1], creator |-> args[4],
                 dst |-> args[3], src |-> args[2],
                 expire |-> args[5], timeout |-> args[6]])

\* cls(*unpacked)
Construct(cls, args) ==
    CASE cls = "PFStateKey" -> PFStateKey_init(args)
      [] cls = "MessageState" -> MessageState_init(args)
      [] cls = "MessageDeleteCompressed" -> MessageDeleteCompressed_init(args)
      [] cls = "MessageClear" -> MessageClear_init(args)
      [] cls = "MessageInsertAck" -> MessageInsertAck_init(args)
      [] cls = "MessageUpdateReq" -> MessageUpdateReq_init(args)
      [] cls = "MessageUpdateCompressed" -> MessageUpdateCompressed_init(args)

\* UnpackableMixin.from_data(data) -> (record, remainder).  The mixin module
\* is not part of the sources at hand; this is the FixedLayoutDecoder
\* contract: fail when the buffer is shorter than the layout, else consume
\* exactly the layout's width from the front and return what remains.
from_data(cls, data) ==
    LET Result(made, size) ==
            IF ~made.ok THEN made
            ELSE [ok |-> TRUE, msg |-> made.obj,
                  rest |-> SubSeq(data, size + 1, Len(data))]
        Decode(size) ==
            IF Len(data) < size THEN Raise("TruncatedInputError")
            ELSE Result(Construct(cls, unpack(get_unpack_format(cls),
                                              SubSeq(data, 1, size))), size)
    IN  Decode(get_cstruct_size(cls))

\* is_nat comparing the first addresses of the keys
is_nat_FirstAddress(self) == self.key[2].addr[1] # self.key[1].addr[1]

\* MessageState.is_nat
is_nat(self) == self.key[2].addr[2] # self.key[1].addr[2]

(***************************************************************************)
(* Actions (actions.py).                                                   *)
(***************************************************************************)
\* message_class of each action class
get_message_class(cls) ==
    CASE cls = "ActionInsertState" -> "MessageState"
      [] cls = "ActionUpdateState" -> "MessageState"
      [] cls = "ActionDeleteState" -> "MessageState"
      [] cls = "ActionDeleteCompressedState" -> "MessageDeleteCompressed"
      [] cls = "ActionClearStates" -> "MessageClear"
      [] cls = "ActionInsertAck" -> "MessageInsertAck"
      [] cls = "ActionUpdateRequestState" -> "MessageUpdateReq"
      [] cls = "ActionUpdateCompressedState" -> "MessageUpdateCompressed"

\* actions with the entries of ids 1 and 2 exchanged
actions_Swapped ==
    << "ActionClearStates",
       "ActionInsertAck",
       "ActionInsertState",
       "ActionUpdateState",
       "ActionUpdateCompressedState",
       "ActionUpdateRequestState",
       "ActionDeleteState",
       "ActionDeleteCompressedState",
       "None", "None", "None", "None", "None", "None", "None" >>

\* the table of build_from_header, indexed by action id + 1
actions ==
    << "ActionClearStates",
       "ActionInsertState",
       "ActionInsertAck",
       "ActionUpdateState",
       "ActionUpdateCompressedState",
       "ActionUpdateRequestState",
       "ActionDeleteState",
       "ActionDeleteCompressedState",
       "None", "None", "None", "None", "None", "None", "None" >>

\* NewList with one list shared by all actions
NewList_Shared(heap) ==
    [lists |-> IF heap = <<>> THEN << <<>> >> ELSE heap, ref |-> 1]

\* self.messages = []: a list object of its own for every action
NewList(heap) == [lists |-> Append(heap, <<>>), ref |-> Len(heap) + 1]

\* DecodeLoop decoding every message from the start of the buffer
RECURSIVE DecodeLoop_SameSlice(_, _, _, _, _)
DecodeLoop_SameSlice(msg_class, data, n, heap, ref) ==
    IF n <= 0 THEN [ok |-> TRUE, lists |-> heap, data |-> data]
    ELSE LET Step(r) ==
                 IF ~r.ok THEN [ok |-> FALSE, err |-> r.err, lists |-> heap]
                 ELSE DecodeLoop_SameSlice(msg_class, data, n - 1,
                         [heap EXCEPT ![ref] = Append(@, r.msg)], ref)
         IN  Step(from_data(msg_class, data))

\* the loop of BaseAction.from_data: n more messages are decoded from data
\* and appended to the list ref of heap; a failing decode leaves the loop
RECURSIVE DecodeLoop(_, _, _, _, _)
DecodeLoop(msg_class, data, n, heap, ref) ==
    IF n <= 0 THEN [ok |-> TRUE, lists |-> heap, data |-> data]
    ELSE LET Step(r) ==
                 IF ~r.ok THEN [ok |-> FALSE, err |-> r.err, lists |-> heap]
                 ELSE DecodeLoop(msg_class, r.rest, n - 1,
                         [heap EXCEPT ![ref] = Append(@, r.msg)], ref)
         IN  Step(from_data(msg_class, data))

(***************************************************************************)
(* The C structs the classes document, all __packed: members in order,    *)
(* each with the width of one element and the number of elements.          *)
(***************************************************************************)
pfsync_state_key ==
    << [name |-> "addr", kind |-> "bytes", size |-> 16, count |-> 2],
       [name |-> "port", kind |-> "int", size |-> 2, count |-> 2] >>

\* the members the peer-size expression '8sIIIHHBB6B' enumerates
pfsync_state_peer ==
    << [name |-> "scrub", kind |-> "bytes", size |-> 8, count |-> 1],
       [name |-> "seqlo", kind |-> "int", size |-> 4, count |-> 1],
       [name |-> "seqhi", kind |-> "int", size |-> 4, count |-> 1],
       [name |-> "seqdiff", kind |-> "int", size |-> 4, count |-> 1],
       [name |-> "max_win", kind |-> "int", size |-> 2, count |-> 1],
       [name |-> "mss", kind |-> "int", size |-> 2, count |-> 1],
       [name |-> "state", kind |-> "int", size |-> 1, count |-> 1],
       [name |-> "wscale", kind |-> "int", size |-> 1, count |-> 1],
       [name |-> "pad", kind |-> "int", size |-> 1, count |-> 6] >>

RECURSIVE Sizeof(_)
Sizeof(struct) ==
    IF struct = <<>> THEN 0
    ELSE Head(struct).size * Head(struct).count + Sizeof(Tail(struct))

pfsync_state_1301 ==
    << [name |-> "id", kind |-> "int", size |-> 8, count |-> 1],
       [name |-> "ifname", kind |-> "bytes", size |-> 16, count |-> 1],
       [name |-> "key", kind |-> "bytes", size |-> 36, count |-> 2],
       [name |-> "src", kind |-> "bytes", size |-> 32, count |-> 1],
       [name |-> "dst", kind |-> "bytes", size |-> 32, count |-> 1],
       [name |-> "rt_addr", kind |-> "bytes", size |-> 16, count |-> 1],
       [name |-> "rule", kind |-> "int", size |-> 4, count |-> 1],
       [name |-> "anchor", kind |-> "int", size |-> 4, count |-> 1],
       [name |-> "nat_rule", kind |-> "int", size |-> 4, count |-> 1],
       [name |-> "creation", kind |-> "int", size |-> 4, count |-> 1],
       [name |-> "expire", kind |-> "int", size |-> 4, count |-> 1],
       [name |-> "packets", kind |-> "int", size |-> 4, count |-> 4],
       [name |-> "bytes", kind |-> "int", size |-> 4, count |-> 4],
       [name |-> "creatorid", kind |-> "int", size |-> 4, count |-> 1],
       [name |-> "af", kind |-> "int", size |-> 1, count |-> 1],
       [name |-> "proto", kind |-> "int", size |-> 1, count |-> 1],
       [name |-> "direction", kind |-> "int", size |-> 1, count |-> 1],
       [name |-> "__spare", kind |-> "int", size |-> 1, count |-> 2],
       [name |-> "log", kind |-> "int", size |-> 1, count |-> 1],
       [name |-> "state_flags", kind |-> "int", size |-> 1, count |-> 1],
       [name |-> "timeout", kind |-> "int", size |-> 1, count |-> 1],
       [name |-> "sync_flags", kind |-> "int", size |-> 1, count |-> 1],
       [name |-> "updates", kind |-> "int", size |-> 1, count |-> 1] >>

pfsync_del_c ==
    << [name |-> "id", kind |-> "int", size |-> 8, count |-> 1],
       [name |-> "creatorid", kind |-> "int", size |-> 4, count |-> 1] >>

pfsync_clr ==
    << [name |-> "ifname", kind |-> "bytes", size |-> 16, count |-> 1],
       [name |-> "creatorid", kind |-> "int", size |-> 4, count |-> 1] >>

pfsync_ins_ack ==
    << [name |-> "id", kind |-> "int", size |-> 8, count |-> 1],
       [name |-> "creatorid", kind |-> "int", size |-> 4, count |-> 1] >>

pfsync_upd_req ==
    << [name |-> "id", kind |-> "int", size |-> 8, count |-> 1],
       [name |-> "creatorid", kind |-> "int", size |-> 4, count |-> 1] >>

pfsync_upd_c ==
    << [name |-> "id", kind |-> "int", size |-> 8, count |-> 1],
       [name |-> "src", kind |-> "bytes", size |-> 32, count |-> 1],
       [name |-> "dst", kind |-> "bytes", size |-> 32, count |-> 1],
       [name |-> "creatorid", kind |-> "int", size |-> 4, count |-> 1],
       [name |-> "expire", kind |-> "int", size |-> 4, count |-> 1],
       [name |-> "timeout", kind |-> "int", size |-> 1, count |-> 1],
       [name |-> "_pad", kind |-> "int", size |-> 1, count |-> 3] >>

\* the struct each message class names in its docstring
StructOf(cls) ==
    CASE cls = "PFStateKey" -> pfsync_state_key
      [] cls = "MessageState" -> pfsync_state_1301
      [] cls = "MessageDeleteCompressed" -> pfsync_del_c
      [] cls = "MessageClear" -> pfsync_clr
      [] cls = "MessageInsertAck" -> pfsync_ins_ack
      [] cls = "MessageUpdateReq" -> pfsync_upd_req
      [] cls = "MessageUpdateCompressed" -> pfsync_upd_c

\* offset of member name in struct
RECURSIVE OffsetOf(_, _)
OffsetOf(struct, name) ==
    IF Head(struct).name = name THEN 0
    ELSE Head(struct).size * Head(struct).count + OffsetOf(Tail(struct), name)

\* v as size bytes in network order
RECURSIVE ToBytes(_, _)
ToBytes(size, v) ==
    IF size = 0 THEN <<>> ELSE ToBytes(size - 1, v \div 256) \o <<v % 256>>

RECURSIVE Flatten(_)
Flatten(ss) == IF ss = <<>> THEN <<>> ELSE Head(ss) \o Flatten(Tail(ss))

\* the wire image of a struct whose member name holds the elements v[name]
WireImage(struct, v) ==
    Flatten([k \in 1..Len(struct) |->
        Flatten([j \in 1..struct[k].count |->
            IF struct[k].kind = "int"
            THEN ToBytes(struct[k].size, v[struct[k].name][j])
            ELSE v[struct[k].name][j]])])

(***************************************************************************)
(* Input buffers.  A buffer is the wire image of some messages, possibly   *)
(* cut short or followed by further bytes.                                 *)
(***************************************************************************)
\* largest repeat count of a sub-header
MaxCount == 2

\* number of build_from_header calls in one session
MaxCalls == 2

Fill(n, b) == [i \in 1..n |-> b]

AddrHeads == << <<10, 0, 0, 1>>, <<192, 168, 1, 20>> >>

\* a 16-byte pf_addr: head h of AddrHeads, the other 12 bytes all t
Addr(h, t) == AddrHeads[h] \o Fill(12, t)

KeyImage(a1, a2, p1, p2) ==
    WireImage(pfsync_state_key, [addr |-> <<a1, a2>>, port |-> <<p1, p2>>])

\* "em<s>", NUL, then bytes that are not part of the name
IfName(s) == <<101, 109, 48 + s, 0, 120, 120>> \o Fill(10, 0)

StateValues(s, wire, stack) ==
    [id |-> <<4096 + s>>, ifname |-> <<IfName(s)>>, key |-> <<wire, stack>>,
     src |-> <<Fill(32, 30 + s)>>, dst |-> <<Fill(32, 40 + s)>>,
     rt_addr |-> <<Fill(16, 50 + s)>>,
     rule |-> <<1100 + s>>, anchor |-> <<1200 + s>>, nat_rule |-> <<1300 + s>>,
     creation |-> <<1400 + s>>, expire |-> <<1500 + s>>,
     packets |-> <<1610 + s, 1620 + s, 1630 + s, 1640 + s>>,
     bytes |-> <<1710 + s, 1720 + s, 1730 + s, 1740 + s>>,
     creatorid |-> <<70000 + s>>,
     af |-> <<2>>, proto |-> <<10 + s>>, direction |-> <<20 + s>>,
     __spare |-> <<30 + s, 40 + s>>, log |-> <<50 + s>>,
     state_flags |-> <<60 + s>>, timeout |-> <<70 + s>>,
     sync_flags |-> <<80 + s>>, updates |-> <<90 + s>>]

\* the s-th sample message of a class
Sample(cls, s) ==
    CASE cls = "MessageState" ->
           WireImage(pfsync_state_1301,
                     StateValues(s, KeyImage(Addr(1, 0), Addr(2, 0), 80, 1024 + s),
                                    KeyImage(Addr(1, 0), Addr(2, 0), 80, 1024 + s)))
      [] cls = "MessageClear" ->
           WireImage(pfsync_clr,
                     [ifname |-> <<IfName(s)>>, creatorid |-> <<70000 + s>>])
      [] cls = "MessageUpdateCompressed" ->
           WireImage(pfsync_upd_c,
                     [id |-> <<4096 + s>>, src |-> <<Fill(32, 30 + s)>>,
                      dst |-> <<Fill(32, 40 + s)>>, creatorid |-> <<70000 + s>>,
                      expire |-> <<1500 + s>>, timeout |-> <<70 + s>>,
                      _pad |-> <<0, 0, 0>>])
      [] OTHER ->
           WireImage(StructOf(cls),
                     [id |-> <<4096 + s>>, creatorid |-> <<70000 + s>>])

\* samples 1..n of a class, one after the other
RECURSIVE Body(_, _)
Body(cls, n) == IF n = 0 THEN <<>> ELSE Body(cls, n - 1) \o Sample(cls, n)

Garbage == <<222, 173, 190>>

ChopLast(b) == SubSeq(b, 1, Len(b) - 1)

\* buffers offered with count n to an action decoding cls
BuffersFor(cls, n) ==
    {Body(cls, n) \o t : t \in {<<>>, Garbage, Sample(cls, n + 1)}}
      \cup (IF n = 0 THEN {}
            ELSE {ChopLast(Body(cls, n)), Body(cls, n - 1),
                  Body(cls, n - 1) \o Garbage})

Input(a, n, d) == [shdr |-> [action_id |-> a, count |-> n], data |-> d]

\* the action each PFSYNC_ACT_* id of the build_from_header docstring stands
\* for, and the message struct that action carries
DocumentedAction(id) ==
    CASE id = 0 -> [action |-> "ActionClearStates", message |-> "MessageClear"]
      [] id = 1 -> [action |-> "ActionInsertState", message |-> "MessageState"]
      [] id = 2 -> [action |-> "ActionInsertAck", message |-> "MessageInsertAck"]
      [] id = 3 -> [action |-> "ActionUpdateState", message |-> "MessageState"]
      [] id = 4 -> [action |-> "ActionUpdateCompressedState",
                    message |-> "MessageUpdateCompressed"]
      [] id = 5 -> [action |-> "ActionUpdateRequestState",
                    message |-> "MessageUpdateReq"]
      [] id = 6 -> [action |-> "ActionDeleteState", message |-> "MessageState"]
      [] id = 7 -> [action |-> "ActionDeleteCompressedState",
                    message |-> "MessageDeleteCompressed"]
      [] OTHER -> [action |-> "None", message |-> "None"]

MappedInputs ==
    UNION {{Input(a, n, d) : d \in BuffersFor(DocumentedAction(a).message, n)} :
              a \in 0..7, n \in 0..MaxCount}

UnmappedInputs ==
    {Input(a, n, d) : a \in {-1} \cup 8..15, n \in 0..MaxCount,
                      d \in {<<>>, Garbage, Sample("MessageState", 1)}}

\* one state message per choice of the second address of both keys, of the
\* first address and second port of the stack key
NatInputs ==
    {Input(1, 1,
           WireImage(pfsync_state_1301,
                     StateValues(1, KeyImage(Addr(1, 0), Addr(wh, wt), 80, 1025),
                                    KeyImage(Addr(sf, 0), Addr(sh, st), 80, sp)))) :
        wh \in 1..2, wt \in {0, 9}, sf \in 1..2, sh \in 1..2, st \in {0, 9},
        sp \in {1025, 4000}}

Inputs == MappedInputs \cup UnmappedInputs \cup NatInputs

SessionInputs ==
    { Input(1, 1, Sample("MessageState", 1) \o Garbage),
      Input(1, 2, Sample("MessageState", 1) \o Garbage),
      Input(7, 2, Body("MessageDeleteCompressed", 2)),
      Input(9, 1, Garbage),
      Input(0, 0, Garbage),
      Input(4, 1, ChopLast(Sample("MessageUpdateCompressed", 1))),
      Input(5, MaxCount, Body("MessageUpdateReq", MaxCount + 1)) }

(***************************************************************************)
(* The decoder as its caller sees it.                                      *)
(*   todo   the (sub-header, buffer) pairs the caller will still submit    *)
(*   lists  the list objects allocated so far (lists[r] is the content of  *)
(*          the list with reference r)                                     *)
(*   objs   the action objects allocated so far                            *)
(*   ret    outcome of the last call                                       *)
(*   hist   what the caller got from each call, with the returned action   *)
(*          as it was at the time of the return                            *)
(*   nat    the last is_nat() query and its answer                         *)
(***************************************************************************)
VARIABLES todo, lists, objs, ret, hist, nat

vars == <<todo, lists, objs, ret, hist, nat>>

\* BaseAction.__init__
BaseAction_init(cls, shdr, heap) ==
    LET With(nl) ==
            [lists |-> nl.lists,
             self |-> [cls |-> cls, header |-> shdr, messages |-> nl.ref]]
    IN  With(NewList(heap))

\* BaseAction.from_data returning what it has when a decode fails
BaseAction_from_data_Partial(cls, data, shdr, ls, os) ==
    LET Finish(loop, os2) ==
            [lists |-> loop.lists, objs |-> os2,
             ret |-> [kind |-> "return", action |-> Len(os2),
                      data |-> IF loop.ok THEN loop.data ELSE data]]
        Run(msg_class, action) ==
            Finish(DecodeLoop(msg_class, data, shdr.count, action.lists,
                              action.self.messages),
                   Append(os, action.self))
    IN  Run(get_message_class(cls), BaseAction_init(cls, shdr, ls))

\* BaseAction.from_data, on the heap (ls, os)
BaseAction_from_data(cls, data, shdr, ls, os) ==
    LET Finish(loop, os2) ==
            IF loop.ok
            THEN [lists |-> loop.lists, objs |-> os2,
                  ret |-> [kind |-> "return", action |-> Len(os2),
                           data |-> loop.data]]
            ELSE [lists |-> loop.lists, objs |-> os2,
                  ret |-> [kind |-> "raise", err |-> loop.err]]
        Run(msg_class, action) ==
            Finish(DecodeLoop(msg_class, data, shdr.count, action.lists,
                              action.self.messages),
                   Append(os, action.self))
    IN  Run(get_message_class(cls), BaseAction_init(cls, shdr, ls))

\* build_from_header handing the buffer back for an unmapped id
build_from_header_KeepsBuffer(shdr, data, ls, os) ==
    IF /\ shdr.action_id >= 0
       /\ shdr.action_id < Len(actions)
       /\ actions[shdr.action_id + 1] # "None"
    THEN BaseAction_from_data(actions[shdr.action_id + 1], data, shdr, ls, os)
    ELSE [lists |-> ls, objs |-> os,
          ret |-> [kind |-> "return", action |-> 0, data |-> data]]

\* build_from_header; the action None is the reference 0
build_from_header(shdr, data, ls, os) ==
    IF /\ shdr.action_id >= 0
       /\ shdr.action_id < Len(actions)
       /\ actions[shdr.action_id + 1] # "None"
    THEN BaseAction_from_data(actions[shdr.action_id + 1], data, shdr, ls, os)
    ELSE [lists |-> ls, objs |-> os,
          ret |-> [kind |-> "return", action |-> 0, data |-> <<>>]]

\* the action with reference a as a value: its class, header and messages
Deref(a, ls, os) ==
    IF a = 0 THEN [cls |-> "None"]
    ELSE [cls |-> os[a].cls, header |-> os[a].header,
          messages |-> ls[os[a].messages]]

Init ==
    /\ todo \in {<<i>> : i \in Inputs} \cup [1..MaxCalls -> SessionInputs]
    /\ lists = <<>>
    /\ objs = <<>>
    /\ ret = [kind |-> "idle"]
    /\ hist = <<>>
    /\ nat = <<>>

\* the caller submits the next sub-header and buffer
BuildFromHeader ==
    /\ todo # <<>>
    /\ \E r \in {build_from_header(Head(todo).shdr, Head(todo).data, lists, objs)} :
           /\ lists' = r.lists
           /\ objs' = r.objs
           /\ ret' = r.ret
           /\ hist' = Append(hist,
                  [shdr |-> Head(todo).shdr, data |-> Head(todo).data,
                   ret |-> r.ret,
                   action |-> IF r.ret.kind = "return"
                              THEN Deref(r.ret.action, r.lists, r.objs)
                              ELSE [cls |-> "None"]])
    /\ todo' = Tail(todo)
    /\ UNCHANGED nat

\* the caller asks message j of the action returned by call c whether the
\* state is natted
IsNat ==
    \E c \in 1..Len(hist) :
        /\ hist[c].ret.kind = "return"
        /\ hist[c].ret.action # 0
        /\ get_message_class(objs[hist[c].ret.action].cls) = "MessageState"
        /\ \E j \in 1..Len(lists[objs[hist[c].ret.action].messages]) :
              nat' = <<[call |-> c, index |-> j,
                        value |-> is_nat(lists[objs[hist[c].ret.action].messages][j])]>>
        /\ UNCHANGED <<todo, lists, objs, ret, hist>>

Next == BuildFromHeader \/ IsNat

Spec == Init /\ [][Next]_vars

(***************************************************************************)
(* Reading a call of the history against the bytes it was given.           *)
(***************************************************************************)
IsMapped(id) == id \in 0..7

\* documented width of the messages of action id
WidthOf(id) == Sizeof(StructOf(DocumentedAction(id).message))

\* the i-th slice of width w of buffer data
Slice(data, i, w) == SubSeq(data, (i - 1) * w + 1, i * w)

DropFirst(data, k) == SubSeq(data, k + 1, Len(data))

Member(struct, name) ==
    struct[CHOOSE k \in 1..Len(struct) : struct[k].name = name]

\* element j (from 1) of member name in the wire image raw of struct
MemberBytes(raw, struct, name, j) ==
    LET off == OffsetOf(struct, name) + (j - 1) * Member(struct, name).size
    IN  SubSeq(raw, off + 1, off + Member(struct, name).size)

MemberInt(raw, struct, name, j) == BigEndian(MemberBytes(raw, struct, name, j))

\* the calls that returned an action
Returned == {c \in 1..Len(hist) : hist[c].ret.kind = "return" /\ hist[c].ret.action # 0}

\* the calls that returned an action made of state messages
ReturnedStates ==
    {c \in Returned : DocumentedAction(hist[c].shdr.action_id).message = "MessageState"}

\* widths of the fields a format yields, in order
RECURSIVE ItemWidths(_)
ItemWidths(items) ==
    IF items = <<>> THEN <<>>
    ELSE (IF Head(items).c = "s" THEN <<Head(items).n>>
          ELSE [j \in 1..Head(items).n |-> CodeSize(Head(items).c)])
           \o ItemWidths(Tail(items))

FieldWidths(fmt) == ItemWidths(ParseFormat(fmt))

RECURSIVE Sum(_)
Sum(q) == IF q = <<>> THEN 0 ELSE Head(q) + Sum(Tail(q))

\* the dotted quads of the address heads in use
DottedQuad(head) ==
    CASE head = <<10, 0, 0, 1>> -> <<"1", "0", ".", "0", ".", "0", ".", "1">>
      [] head = <<192, 168, 1, 20>> -> <<"1", "9", "2", ".", "1", "6", "8", ".", "1", ".", "2", "0">>

(***************************************************************************)
(* C1: for a mapped action id, a count n >= 0 and a buffer that starts     *)
(* with n whole messages, the call returns an action with exactly n        *)
(* messages, the i-th being the decode of the i-th message-wide slice of   *)
(* the buffer, and the buffer without its first n * width bytes; for n = 0 *)
(* the list is empty and the buffer is returned as it was.                 *)
(***************************************************************************)
C1_CountMessagesInOrder ==
    \A c \in 1..Len(hist) :
        LET h == hist[c]
            n == h.shdr.count
            w == WidthOf(h.shdr.action_id)
        IN  (IsMapped(h.shdr.action_id) /\ Len(h.data) >= n * w) =>
              /\ h.ret.kind = "return"
              /\ h.ret.action # 0
              /\ Len(h.action.messages) = n
              /\ \A i \in 1..n :
                    LET d == from_data(DocumentedAction(h.shdr.action_id).message,
                                       Slice(h.data, i, w))
                    IN  d.ok /\ d.rest = <<>> /\ h.action.messages[i] = d.msg
              /\ h.ret.data = DropFirst(h.data, n * w)
              /\ (n = 0 => h.action.messages = <<>> /\ h.ret.data = h.data)

C1_Witness ==
    \E c \in Returned :
        /\ hist[c].shdr.count = 2
        /\ Len(hist[c].action.messages) = 2
        /\ hist[c].action.messages[1] # hist[c].action.messages[2]
        /\ hist[c].ret.data = Garbage

(***************************************************************************)
(* C2: for an action id that is not mapped (8..14, or outside 0..14) the   *)
(* call returns no action and an empty remainder whatever the buffer and   *)
(* the count are: nothing is raised and nothing is decoded or allocated.   *)
(***************************************************************************)
C2_UnmappedYieldsNone ==
    /\ \A c \in 1..Len(hist) :
          ~IsMapped(hist[c].shdr.action_id) =>
              /\ hist[c].ret.kind = "return"
              /\ hist[c].ret.action = 0
              /\ hist[c].ret.data = <<>>
              /\ hist[c].action = [cls |-> "None"]
    /\ Len(lists) = Cardinality({c \in 1..Len(hist) : IsMapped(hist[c].shdr.action_id)})
    /\ Len(objs) = Len(lists)

C2_Witness ==
    \E c \in 1..Len(hist) :
        /\ hist[c].shdr.action_id \in 8..14
        /\ hist[c].shdr.count > 0
        /\ Len(hist[c].data) >= Sizeof(pfsync_state_1301)
        /\ hist[c].ret.kind = "return"
        /\ hist[c].ret.data = <<>>

(***************************************************************************)
(* C3: for a mapped action id and a count n >= 1, a buffer of fewer than   *)
(* n * width bytes makes the call fail with the truncation error; the      *)
(* caller gets neither an action nor a remainder, also when the first      *)
(* k < n messages were whole and had been appended.                        *)
(***************************************************************************)
C3_TruncationIsAllOrNothing ==
    \A c \in 1..Len(hist) :
        LET h == hist[c]
            n == h.shdr.count
            w == WidthOf(h.shdr.action_id)
        IN  (IsMapped(h.shdr.action_id) /\ n >= 1 /\ Len(h.data) < n * w) =>
              /\ h.ret.kind = "raise"
              /\ h.ret.err = "TruncatedInputError"
              /\ DOMAIN h.ret = {"kind", "err"}
              /\ h.action = [cls |-> "None"]

\* a call that failed after one whole message had been appended
C3_Witness ==
    /\ Len(hist) = 1
    /\ hist[1].ret.kind = "raise"
    /\ hist[1].shdr.count = 2
    /\ Len(lists) = 1
    /\ Len(lists[1]) = 1

(***************************************************************************)
(* C4: the table maps 0 to Clear, 1 to InsertState, 2 to InsertAck, 3 to   *)
(* UpdateState, 4 to UpdateCompressed, 5 to UpdateRequest, 6 to            *)
(* DeleteState, 7 to DeleteCompressed and 8..14 to nothing; the returned   *)
(* action is of that kind and its messages are of the type bound to it.    *)
(***************************************************************************)
C4_DispatchTable ==
    \A c \in 1..Len(hist) :
        LET h == hist[c] IN
        h.ret.kind = "return" =>
          /\ h.action.cls = DocumentedAction(h.shdr.action_id).action
          /\ h.ret.action # 0 =>
                \A i \in 1..Len(h.action.messages) :
                    h.action.messages[i].cls
                        = DocumentedAction(h.shdr.action_id).message

C4_Witness ==
    \E c \in Returned :
        /\ hist[c].shdr.action_id = 2
        /\ hist[c].action.cls = "ActionInsertAck"
        /\ Len(hist[c].action.messages) > 0
        /\ hist[c].action.messages[1].cls = "MessageInsertAck"

(***************************************************************************)
(* C5 (as stated): a state message is laid out as an 8-byte id, a 16-byte  *)
(* interface name, 2 state keys, 2 peer blocks, a 4-byte rt_addr, five     *)
(* 4-byte counters, 4 + 4 four-byte packet and byte counters, a 4-byte     *)
(* creator id and eight 1-byte fields, and one message consumes the sum of *)
(* these widths.                                                           *)
(***************************************************************************)
StatedStateWidths ==
    <<8, 16, 36, 36, 32, 32, 4>> \o Fill(5, 4) \o Fill(4, 4) \o Fill(4, 4)
      \o <<4>> \o Fill(8, 1)

C5_StatedLayout ==
    \A c \in ReturnedStates :
        /\ FieldWidths(get_unpack_format("MessageState")) = StatedStateWidths
        /\ Len(hist[c].data) - Len(hist[c].ret.data)
              = hist[c].shdr.count * Sum(StatedStateWidths)

(***************************************************************************)
(* C5 (amended): as above, but rt_addr is four 4-byte words (16 bytes) and *)
(* there are ten 1-byte fields; one state message consumes the sum of the  *)
(* widths, 242 bytes, and a buffer holding that many bytes per counted     *)
(* message is decoded.                                                     *)
(***************************************************************************)
ActualStateWidths ==
    <<8, 16, 36, 36, 32, 32>> \o Fill(4, 4) \o Fill(5, 4) \o Fill(4, 4)
      \o Fill(4, 4) \o <<4>> \o Fill(10, 1)

C5_StateLayout ==
    \A c \in 1..Len(hist) :
        LET h == hist[c] IN
        (/\ DocumentedAction(h.shdr.action_id).message = "MessageState"
         /\ Len(h.data) >= h.shdr.count * Sum(ActualStateWidths)) =>
            /\ FieldWidths(get_unpack_format("MessageState")) = ActualStateWidths
            /\ h.ret.kind = "return"
            /\ Len(h.data) - Len(h.ret.data)
                  = h.shdr.count * Sum(ActualStateWidths)
            /\ Len(h.data) - Len(h.ret.data) = h.shdr.count * 242

C5_Witness ==
    \E c \in ReturnedStates :
        /\ hist[c].shdr.count = 1
        /\ Len(hist[c].data) = 242 + Len(Garbage)
        /\ hist[c].ret.data = Garbage

(***************************************************************************)
(* C6: one record consumes 12 bytes for DeleteCompressed, InsertAck and    *)
(* UpdateRequest, 20 for Clear, 36 for a state key and                     *)
(* 8 + 2*P + 4 + 4 + 1 + 3 for UpdateCompressed, P being the peer-block    *)
(* width, which is the one used inside the state message, 32.              *)
(***************************************************************************)
StatedWidth(cls) ==
    CASE cls = "MessageDeleteCompressed" -> 12
      [] cls = "MessageInsertAck" -> 12
      [] cls = "MessageUpdateReq" -> 12
      [] cls = "MessageClear" -> 20
      [] cls = "PFStateKey" -> 36
      [] cls = "MessageUpdateCompressed" ->
            8 + 2 * MessageState_state_peer_size + 4 + 4 + 1 + 3

SizedClasses ==
    {"MessageDeleteCompressed", "MessageInsertAck", "MessageUpdateReq",
     "MessageClear", "PFStateKey", "MessageUpdateCompressed"}

C6_RecordWidths ==
    /\ \A c \in 1..Len(hist) :
          LET h == hist[c]
              cls == DocumentedAction(h.shdr.action_id).message
          IN  (/\ cls \in SizedClasses
               /\ Len(h.data) >= h.shdr.count * StatedWidth(cls)) =>
                  /\ h.ret.kind = "return"
                  /\ Len(h.data) - Len(h.ret.data)
                        = h.shdr.count * StatedWidth(cls)
                  /\ get_cstruct_size(cls) = StatedWidth(cls)
    /\ \A c \in Returned :
          /\ get_cstruct_size("PFStateKey") = StatedWidth("PFStateKey")
          /\ FieldWidths(get_unpack_format("PFStateKey")) = <<16, 16, 2, 2>>
          /\ MessageUpdateCompressed_state_peer_size = MessageState_state_peer_size
          /\ MessageState_state_peer_size = 32
          /\ FieldWidths(get_unpack_format("MessageUpdateCompressed"))
                = <<8, 32, 32, 4, 4, 1, 1, 1, 1>>

C6_Witness ==
    \E c \in Returned :
        /\ hist[c].shdr.action_id = 4
        /\ hist[c].shdr.count = 2
        /\ Len(hist[c].data) - Len(hist[c].ret.data) = 168

(***************************************************************************)
(* C7: is_nat() of a decoded state message is true exactly when the second *)
(* address of the stack key (key[1].addr[1]) differs from the second       *)
(* address of the wire key (key[0].addr[1]), that is when the first four   *)
(* bytes of these two fields differ; nothing else has a say.               *)
(***************************************************************************)
C7_IsNatComparesSecondAddresses ==
    \A q \in 1..Len(nat) :
        LET h == hist[nat[q].call]
            m == h.action.messages[nat[q].index]
            raw == Slice(h.data, nat[q].index, Sizeof(pfsync_state_1301))
            wire == MemberBytes(raw, pfsync_state_1301, "key", 1)
            stack == MemberBytes(raw, pfsync_state_1301, "key", 2)
        IN  /\ nat[q].value = (m.key[2].addr[2] # m.key[1].addr[2])
            /\ nat[q].value =
                 (SubSeq(MemberBytes(stack, pfsync_state_key, "addr", 2), 1, 4)
                    # SubSeq(MemberBytes(wire, pfsync_state_key, "addr", 2), 1, 4))

\* a state that is not natted although the first addresses, the ports and
\* the unused bytes of the second addresses of its two keys differ
C7_Witness ==
    \E q \in 1..Len(nat) :
        LET m == hist[nat[q].call].action.messages[nat[q].index]
            raw == Slice(hist[nat[q].call].data, nat[q].index,
                         Sizeof(pfsync_state_1301))
        IN  /\ nat[q].value = FALSE
            /\ m.key[1].addr[1] # m.key[2].addr[1]
            /\ m.key[1].port # m.key[2].port
            /\ MemberBytes(MemberBytes(raw, pfsync_state_1301, "key", 1),
                           pfsync_state_key, "addr", 2)
                 # MemberBytes(MemberBytes(raw, pfsync_state_1301, "key", 2),
                               pfsync_state_key, "addr", 2)

(***************************************************************************)
(* C8: an address of a state key is the dotted quad of the first four      *)
(* bytes of its 16-byte field, in wire order (10, 0, 0, 1 gives 10.0.0.1); *)
(* the other twelve bytes do not matter.                                   *)
(***************************************************************************)
C8_AddressFromFirstFourBytes ==
    \A c \in ReturnedStates :
        \A i \in 1..Len(hist[c].action.messages) :
            \A k \in 1..2, j \in 1..2 :
                LET raw == Slice(hist[c].data, i, Sizeof(pfsync_state_1301))
                    key == MemberBytes(raw, pfsync_state_1301, "key", k)
                    field == MemberBytes(key, pfsync_state_key, "addr", j)
                IN  hist[c].action.messages[i].key[k].addr[j]
                        = DottedQuad(SubSeq(field, 1, 4))

\* two fields with the same first four bytes and different other bytes,
\* both read as 10.0.0.1
C8_Witness ==
    \E c \in ReturnedStates :
        LET raw == Slice(hist[c].data, 1, Sizeof(pfsync_state_1301))
            m == hist[c].action.messages[1]
            f1 == MemberBytes(MemberBytes(raw, pfsync_state_1301, "key", 1),
                              pfsync_state_key, "addr", 2)
            f2 == MemberBytes(MemberBytes(raw, pfsync_state_1301, "key", 2),
                              pfsync_state_key, "addr", 2)
        IN  /\ Len(hist[c].action.messages) = 1
            /\ f1 # f2
            /\ SubSeq(f1, 1, 4) = <<10, 0, 0, 1>>
            /\ SubSeq(f2, 1, 4) = <<10, 0, 0, 1>>
            /\ m.key[1].addr[2] = <<"1", "0", ".", "0", ".", "0", ".", "1">>
            /\ m.key[2].addr[2] = m.key[1].addr[2]

(***************************************************************************)
(* C9: decoding keeps nothing between calls: two calls given the same      *)
(* sub-header and buffer, whatever was decoded in between, have equal      *)
(* outcomes, and an action already returned keeps its header and messages  *)
(* when later calls are made.                                              *)
(***************************************************************************)
C9_StatelessAcrossCalls ==
    /\ \A c1, c2 \in 1..Len(hist) :
          (hist[c1].shdr = hist[c2].shdr /\ hist[c1].data = hist[c2].data) =>
              /\ hist[c1].ret.kind = hist[c2].ret.kind
              /\ hist[c1].action = hist[c2].action
              /\ hist[c1].ret.kind = "return" =>
                    hist[c1].ret.data = hist[c2].ret.data
              /\ hist[c1].ret.kind = "raise" =>
                    hist[c1].ret.err = hist[c2].ret.err
    /\ \A c \in Returned :
          /\ Deref(hist[c].ret.action, lists, objs) = hist[c].action
          /\ hist[c].action.header = hist[c].shdr
    /\ \A c1, c2 \in Returned :
          c1 # c2 => objs[hist[c1].ret.action].messages
                        # objs[hist[c2].ret.action].messages

C9_Witness ==
    /\ Len(hist) = 2
    /\ hist[1].shdr = hist[2].shdr
    /\ hist[1].data = hist[2].data
    /\ hist[2].ret.kind = "return"
    /\ hist[2].ret.action # 0
    /\ Len(hist[2].action.messages) > 0

(***************************************************************************)
(* C10: the state message layout yields the 34 fields the constructor      *)
(* takes, and every attribute comes from the member of struct              *)
(* pfsync_state_1301 it is named after: id, ifname up to the first NUL,    *)
(* the two keys each decoded from its whole 36-byte blob, rule, creation,  *)
(* expire, packets[2][2], bytes[2][2], creatorid, proto, direction, log    *)
(* and timeout.                                                            *)
(***************************************************************************)
IsNameOf(name, ifname) ==
    /\ Len(name) <= Len(ifname)
    /\ name = SubSeq(ifname, 1, Len(name))
    /\ \A i \in 1..Len(name) : name[i] # 0
    /\ Len(name) < Len(ifname) => ifname[Len(name) + 1] = 0

C10_AttributesFollowStruct ==
    /\ Len(FieldWidths(get_unpack_format("MessageState"))) = 34
    /\ \A c \in ReturnedStates :
          \A i \in 1..Len(hist[c].action.messages) :
              LET raw == Slice(hist[c].data, i, Sizeof(pfsync_state_1301))
                  m == hist[c].action.messages[i]
                  IntAt(name, j) == MemberInt(raw, pfsync_state_1301, name, j)
                  KeyAt(k) == from_data("PFStateKey",
                               MemberBytes(raw, pfsync_state_1301, "key", k))
              IN  /\ m.id = IntAt("id", 1)
                  /\ IsNameOf(m.interface,
                              MemberBytes(raw, pfsync_state_1301, "ifname", 1))
                  /\ \A k \in 1..2 :
                        KeyAt(k).ok /\ KeyAt(k).rest = <<>> /\ m.key[k] = KeyAt(k).msg
                  /\ m.rule = IntAt("rule", 1)
                  /\ m.creation = IntAt("creation", 1)
                  /\ m.expire = IntAt("expire", 1)
                  /\ m.packets = << <<IntAt("packets", 1), IntAt("packets", 2)>>,
                                    <<IntAt("packets", 3), IntAt("packets", 4)>> >>
                  /\ m.bytes = << <<IntAt("bytes", 1), IntAt("bytes", 2)>>,
                                  <<IntAt("bytes", 3), IntAt("bytes", 4)>> >>
                  /\ m.creator = IntAt("creatorid", 1)
                  /\ m.protocol = IntAt("proto", 1)
                  /\ m.direction = IntAt("direction", 1)
                  /\ m.log = IntAt("log", 1)
                  /\ m.timeout = IntAt("timeout", 1)

C10_Witness ==
    \E c \in ReturnedStates :
        /\ Len(hist[c].action.messages) = 2
        /\ hist[c].action.messages[2].interface = <<101, 109, 50>>
        /\ hist[c].action.messages[2].log = 52
        /\ hist[c].action.messages[2].timeout = 72
        /\ hist[c].action.messages[2].rule = 1102

====
